---------------------------- MODULE Spec2Model ----------------------------
(***************************************************************************)
(* Model of the text analyzer of yat_editor.                               *)
(*                                                                         *)
(* Two variants of TextAnalyzer live in the repository:                    *)
(*   "analyzer" : src/analyzer.py (used by src/handlers.py); razdel        *)
(*                tokenizer, override mapping WORDS_LEMMA, marker "_";     *)
(*   "bot"      : src/bot.py (the single-file bot); regex tokenizer,       *)
(*                try/except around the engine call, marker "**".          *)
(*                                                                         *)
(* A text is a sequence of one-character strings.  TLC strings are ASCII,  *)
(* so the Cyrillic letters of the program are written with stand-ins:      *)
(* "a", "b" are lowercase letters, "B" is the uppercase of "b", "-" is a   *)
(* dash (punctuation), " " is whitespace.  Offsets are 0-based and spans   *)
(* half-open, as in Python.                                                *)
(***************************************************************************)
EXTENDS Integers, Sequences, FiniteSets, TLC

VARIABLES
    variant,    \* which TextAnalyzer class the process runs
    cache,      \* self.cache : lowercased word -> lemma
    calls,      \* number of calls made on the instance so far
    op,         \* the last call: "none", "normalize_word", "is_target_word", "analyze_text"
    arg,        \* its argument
    outcome,    \* "none", "return" or "raise"
    ret,        \* the value it returned
    normLog,    \* the normalize_word calls made during it, in order
    tokenLog,   \* the tokens it passed to is_target_word, in order
    tokenizerCalls, \* how many times it invoked the tokenizer
    seen,       \* history: lowercased word -> value normalize_word first returned for it
    threads,    \* concurrent analyses on the shared instance: thread -> its position and locals
    handler     \* the last run of handle_text_message: message, replies, fate of the exception

vars == <<variant, cache, calls, op, arg, outcome, ret, normLog, tokenLog,
          tokenizerCalls, seen, threads, handler>>

\* ------------------------------------------------------------------ bounds

MaxLen == 3
MaxCalls == 2
MaxConcLen == 2

\* ------------------------------------------------------------- characters

Alphabet == {"a", "b", "B", "-", " "}

Variants == {"analyzer", "bot"}

\* the character class [а-яА-ЯёЁa-zA-Z] of the regex, and razdel's RU/LAT atoms
IsLetter(c) == c \in {"a", "b", "B"}

\* str.strip() and the tokenizers skip whitespace
IsSpace(c) == c = " "

LowerChar(c) == IF c = "B" THEN "b" ELSE c

\* str.lower()
Lower(word) == [i \in 1..Len(word) |-> LowerChar(word[i])]

\* Python slice s[a:b] with 0 <= a <= b <= len(s)
Slice(s, a, b) == SubSeq(s, a + 1, b)

Texts == UNION {[1..n -> Alphabet] : n \in 0..MaxLen}

EmptyMap == [w \in {} |-> <<>>]

\* --------------------------------------------------------- configuration

\* config.TARGET_WORDS, scaled down to two lemmas
TARGET_WORDS == {<<"b">>, <<"a">>}

\* self.target_words = set(word.lower() for word in target_words)
target_words == {Lower(w) : w \in TARGET_WORDS}

\* config.WORDS_LEMMA: surface form -> forced lemma.  "ab" is a word the engine
\* lemmatises to a non-target lemma, "aab" a word the engine fails on.
WORDS_LEMMA == (<<"a", "b">> :> <<"b">>) @@ (<<"a", "a", "b">> :> <<"b">>)

\* self.words_lemma; the TextAnalyzer of bot.py has no override mapping
words_lemma(v) == IF v = "analyzer" THEN WORDS_LEMMA ELSE EmptyMap

\* --------------------------------------------------- morphological engine

AllLetters(w) == \A i \in 1..Len(w) : IsLetter(w[i])

\* self.morph.parse(word_lower): a deterministic black box.  It either raises
\* or returns the ranked list of candidate normal forms, possibly empty.
\*   b...        -> lemma "b"          a      -> lemma "a"
\*   aa          -> no candidate       aa...  -> the engine raises
\*   ab...       -> the word itself (a lemma that is no target)
\*   anything that is not a word of letters -> the string itself
MorphParse(w) ==
    IF w # <<>> /\ AllLetters(w)
    THEN IF w[1] = "b" THEN [raises |-> FALSE, parsed |-> << <<"b">> >>]
         ELSE IF Len(w) = 1 THEN [raises |-> FALSE, parsed |-> << w >>]
         ELSE IF w[2] = "a"
              THEN IF Len(w) = 2 THEN [raises |-> FALSE, parsed |-> << >>]
                   ELSE [raises |-> TRUE, parsed |-> << >>]
              ELSE [raises |-> FALSE, parsed |-> << w >>]
    ELSE [raises |-> FALSE, parsed |-> << w >>]

\* ----------------------------------------------------------- normalize_word

\* One call of normalize_word on cache c: whether it raised, the value it
\* returned, the cache it left, and whether it called the engine.
NormRec(raised, value, c, engine, word) ==
    [raised |-> raised, value |-> value, cache |-> c, engine |-> engine,
     word |-> word]

\* mutant: the override mapping is consulted only when the engine has no answer
normalize_word_engine_first(c, word) ==
    LET word_lower == Lower(word) IN
    IF word_lower \in DOMAIN c
    THEN NormRec(FALSE, c[word_lower], c, FALSE, word)
    ELSE LET p == MorphParse(word_lower) IN
         IF ~p.raises /\ p.parsed # << >>
         THEN LET normal_form == Lower(p.parsed[1])
              IN NormRec(FALSE, normal_form, (word_lower :> normal_form) @@ c, TRUE, word)
         ELSE IF word_lower \in DOMAIN words_lemma("analyzer")
         THEN LET normal_form == Lower(words_lemma("analyzer")[word_lower])
              IN NormRec(FALSE, normal_form, (word_lower :> normal_form) @@ c, TRUE, word)
         ELSE NormRec(TRUE, << >>, c, TRUE, word)

\* mutant: the cache is filled with the lowercased word instead of its lemma
normalize_word_stale(c, word) ==
    LET word_lower == Lower(word) IN
    IF word_lower \in DOMAIN c
    THEN NormRec(FALSE, c[word_lower], c, FALSE, word)
    ELSE IF word_lower \in DOMAIN words_lemma("analyzer")
    THEN LET normal_form == Lower(words_lemma("analyzer")[word_lower])
         IN NormRec(FALSE, normal_form, (word_lower :> word_lower) @@ c, FALSE, word)
    ELSE LET p == MorphParse(word_lower) IN
         IF p.raises \/ p.parsed = << >>
         THEN NormRec(TRUE, << >>, c, TRUE, word)
         ELSE LET normal_form == Lower(p.parsed[1])
              IN NormRec(FALSE, normal_form, (word_lower :> word_lower) @@ c, TRUE, word)

\* mutant: a miss replaces the cache by the new entry alone
normalize_word_evict(c, word) ==
    LET word_lower == Lower(word) IN
    IF word_lower \in DOMAIN c
    THEN NormRec(FALSE, c[word_lower], c, FALSE, word)
    ELSE IF word_lower \in DOMAIN words_lemma("analyzer")
    THEN LET normal_form == Lower(words_lemma("analyzer")[word_lower])
         IN NormRec(FALSE, normal_form, (word_lower :> normal_form), FALSE, word)
    ELSE LET p == MorphParse(word_lower) IN
         IF p.raises \/ p.parsed = << >>
         THEN NormRec(TRUE, << >>, c, TRUE, word)
         ELSE LET normal_form == Lower(p.parsed[1])
              IN NormRec(FALSE, normal_form, (word_lower :> normal_form), TRUE, word)

\* src/analyzer.py: cache, then override mapping, then engine.  Line 32 prints
\* parsed[0].normal_form before line 33 tests `if parsed`, so an empty
\* candidate list raises IndexError; there is no try around the engine call.
normalize_word_analyzer(c, word) ==
    LET word_lower == Lower(word) IN
    IF word_lower \in DOMAIN c
    THEN NormRec(FALSE, c[word_lower], c, FALSE, word)
    ELSE IF word_lower \in DOMAIN words_lemma("analyzer")
    THEN LET normal_form == Lower(words_lemma("analyzer")[word_lower])
         IN NormRec(FALSE, normal_form, (word_lower :> normal_form) @@ c, FALSE, word)
    ELSE LET p == MorphParse(word_lower) IN
         IF p.raises \/ p.parsed = << >>
         THEN NormRec(TRUE, << >>, c, TRUE, word)
         ELSE LET normal_form == Lower(p.parsed[1])
              IN NormRec(FALSE, normal_form, (word_lower :> normal_form) @@ c, TRUE, word)

\* src/bot.py: cache, then engine inside try/except; the except branch returns
\* the lowercased word without caching it.
normalize_word_bot(c, word) ==
    LET word_lower == Lower(word) IN
    IF word_lower \in DOMAIN c
    THEN NormRec(FALSE, c[word_lower], c, FALSE, word)
    ELSE LET p == MorphParse(word_lower) IN
         IF p.raises \/ p.parsed = << >>
         THEN NormRec(FALSE, word_lower, c, TRUE, word)
         ELSE LET normal_form == p.parsed[1]
              IN NormRec(FALSE, normal_form, (word_lower :> normal_form) @@ c, TRUE, word)

normalize_word(v, c, word) ==
    IF v = "analyzer" THEN normalize_word_analyzer(c, word)
    ELSE normalize_word_bot(c, word)

\* mutant: membership tested on the lowercased surface form, not on the lemma
is_target_word_surface(v, c, word) ==
    LET r == normalize_word(v, c, word)
    IN [raised |-> r.raised, value |-> (~r.raised /\ Lower(word) \in target_words),
        cache |-> r.cache, norm |-> r]

\* is_target_word on cache c: the normalize_word call it makes and its answer
is_target_word(v, c, word) ==
    LET r == normalize_word(v, c, word)
    IN [raised |-> r.raised, value |-> (~r.raised /\ r.value \in target_words),
        cache |-> r.cache, norm |-> r]

\* -------------------------------------------------------------- tokenizers

\* end (exclusive, 0-based) of the run of letters that starts at i
RECURSIVE RunEnd(_, _)
RunEnd(text, i) ==
    IF i < Len(text) /\ IsLetter(text[i + 1]) THEN RunEnd(text, i + 1) ELSE i

\* end of the atom (or of the whitespace character) at i
AtomStop(text, i) == IF IsLetter(text[i + 1]) THEN RunEnd(text, i) ELSE i + 1

\* razdel's ATOM regex: a run of letters, or one punctuation character;
\* whitespace is skipped
RECURSIVE AtomsFrom(_, _)
AtomsFrom(text, i) ==
    IF i >= Len(text) THEN << >>
    ELSE (IF IsSpace(text[i + 1]) THEN << >>
          ELSE << [type |-> IF IsLetter(text[i + 1]) THEN "RU" ELSE "PUNCT",
                   start |-> i, stop |-> AtomStop(text, i)] >>)
         \o AtomsFrom(text, AtomStop(text, i))

IsDash(text, atom) == Slice(text, atom.start, atom.stop) = << "-" >>

\* razdel's DashRule at the split between atoms[k-1] and atoms[k]: when one
\* side of the split is a dash, join if the atoms around the dash both exist
\* and neither is punctuation
DashRule(text, atoms, k) ==
    IF IsDash(text, atoms[k - 1])
    THEN k - 2 >= 1 /\ atoms[k - 2].type # "PUNCT" /\ atoms[k].type # "PUNCT"
    ELSE IF IsDash(text, atoms[k])
    THEN k + 1 <= Len(atoms) /\ atoms[k - 1].type # "PUNCT"
         /\ atoms[k + 1].type # "PUNCT"
    ELSE FALSE

\* razdel's punct rule: two adjacent dashes join
PunctRule(text, atoms, k) ==
    /\ atoms[k - 1].type = "PUNCT" /\ atoms[k].type = "PUNCT"
    /\ IsDash(text, atoms[k - 1]) /\ IsDash(text, atoms[k])

\* atoms[k] is joined to the running token when nothing separates it from
\* atoms[k-1] and a rule says join
Joins(text, atoms, k) ==
    /\ atoms[k - 1].stop = atoms[k].start
    /\ (DashRule(text, atoms, k) \/ PunctRule(text, atoms, k))

Token(text, start, stop) ==
    [text |-> Slice(text, start, stop), start |-> start, stop |-> stop]

\* razdel's TokenSegmenter.segment: the running token starts at bufStart; at
\* atoms[k] it is either extended or yielded
RECURSIVE Segment(_, _, _, _)
Segment(text, atoms, k, bufStart) ==
    IF k > Len(atoms)
    THEN << Token(text, bufStart, atoms[Len(atoms)].stop) >>
    ELSE (IF Joins(text, atoms, k) THEN << >>
          ELSE << Token(text, bufStart, atoms[k - 1].stop) >>)
         \o Segment(text, atoms, k + 1,
                    IF Joins(text, atoms, k) THEN bufStart ELSE atoms[k].start)

SegmentAll(text, atoms) ==
    IF atoms = << >> THEN << >> ELSE Segment(text, atoms, 2, atoms[1].start)

\* razdel.tokenize(text), as src/analyzer.py calls it
razdel_tokenize(text) == SegmentAll(text, AtomsFrom(text, 0))

\* re.finditer(r'[а-яА-ЯёЁa-zA-Z]+', text), as src/bot.py calls it
RECURSIVE re_finditer(_, _)
re_finditer(text, i) ==
    IF i >= Len(text) THEN << >>
    ELSE (IF IsLetter(text[i + 1]) THEN << Token(text, i, RunEnd(text, i)) >>
          ELSE << >>)
         \o re_finditer(text, AtomStop(text, i))

Reversed(ts) == [i \in 1..Len(ts) |-> ts[Len(ts) + 1 - i]]

\* mutant: the tokens come out last to first
tokenize_reversed(v, text) ==
    Reversed(IF v = "analyzer" THEN razdel_tokenize(text) ELSE re_finditer(text, 0))

tokenize(v, text) ==
    IF v = "analyzer" THEN razdel_tokenize(text) ELSE re_finditer(text, 0)

\* ------------------------------------------------------------ analyze_text

\* mutant: `not text`, the strip forgotten
IsBlank_unstripped(text) == text = << >>

\* `not text.strip()`
IsBlank(text) == \A i \in 1..Len(text) : IsSpace(text[i])

\* the emphasis marker: f"_{word}_" in analyzer.py, f"**{word}**" in bot.py
Marker(v) == IF v = "analyzer" THEN << "_" >> ELSE << "*", "*" >>

\* The token loop.  st carries the cache, the matches so far, the
\* normalize_word calls made, the tokens tested, and whether a call raised.

\* the token is a target: n is the second normalize_word call, which fills
\* "normal" of the appended match
Matched(st, token, t, n) ==
    IF n.raised
    THEN [st EXCEPT !.raised = TRUE, !.cache = n.cache,
                    !.norms = @ \o << t.norm, n >>,
                    !.tokens = Append(@, token)]
    ELSE [st EXCEPT !.cache = n.cache,
                    !.norms = @ \o << t.norm, n >>,
                    !.tokens = Append(@, token),
                    !.matches = Append(@,
                        [word |-> token.text, normal |-> n.value,
                         start |-> token.start, end |-> token.stop])]

\* t is the is_target_word call on the token
Tested(v, st, token, t) ==
    IF t.raised
    THEN [st EXCEPT !.raised = TRUE, !.cache = t.cache,
                    !.norms = Append(@, t.norm), !.tokens = Append(@, token)]
    ELSE IF ~t.value
    THEN [st EXCEPT !.cache = t.cache, !.norms = Append(@, t.norm),
                    !.tokens = Append(@, token)]
    ELSE Matched(st, token, t, normalize_word(v, t.cache, token.text))

\* one iteration of `for token in tokenize(text)`
LoopBody(v, st, token) ==
    Tested(v, st, token, is_target_word(v, st.cache, token.text))

\* the loop from token k on; an exception leaves it
RECURSIVE Collect(_, _, _, _)
Collect(v, tokens, k, st) ==
    IF k > Len(tokens) \/ st.raised THEN st
    ELSE Collect(v, tokens, k + 1, LoopBody(v, st, tokens[k]))

RemoveAt(s, i) == SubSeq(s, 1, i - 1) \o SubSeq(s, i + 1, Len(s))

\* mutant: the sort without reverse=True (matches stay in ascending order)
sorted_forward(ms) == ms

\* sorted(matches, key=lambda x: x["start"], reverse=True): a stable sort
RECURSIVE sorted_reverse(_)
sorted_reverse(ms) ==
    IF ms = << >> THEN << >>
    ELSE LET i == CHOOSE i \in 1..Len(ms) :
                    /\ \A j \in 1..Len(ms) : ms[j].start <= ms[i].start
                    /\ \A j \in 1..(i - 1) : ms[j].start < ms[i].start
         IN << ms[i] >> \o sorted_reverse(RemoveAt(ms, i))

\* the highlighting loop: each match replaces [start, end) of the text built
\* so far by marker + word + marker
RECURSIVE Highlight(_, _, _)
Highlight(highlighted_text, ms, marker) ==
    IF ms = << >> THEN highlighted_text
    ELSE LET m == Head(ms)
             highlighted_word == marker \o m.word \o marker
         IN Highlight(Slice(highlighted_text, 0, m.start) \o highlighted_word
                        \o Slice(highlighted_text, m.end, Len(highlighted_text)),
                      Tail(ms), marker)

\* mutant: stats[base_word] = 1, the increment forgotten
RECURSIVE CountStats_overwrite(_, _)
CountStats_overwrite(ms, stats) ==
    IF ms = << >> THEN stats
    ELSE CountStats_overwrite(Tail(ms),
             [w \in (DOMAIN stats) \cup {Head(ms).normal} |->
                 IF w = Head(ms).normal THEN 1 ELSE stats[w]])

\* the statistics loop: stats[base_word] = stats.get(base_word, 0) + 1
RECURSIVE CountStats(_, _)
CountStats(ms, stats) ==
    IF ms = << >> THEN stats
    ELSE LET base_word == Head(ms).normal
             n == IF base_word \in DOMAIN stats THEN stats[base_word] ELSE 0
         IN CountStats(Tail(ms),
               [w \in (DOMAIN stats) \cup {base_word} |->
                   IF w = base_word THEN n + 1 ELSE stats[w]])

ZeroResult ==
    [highlighted |-> << >>, matches |-> << >>, stats |-> EmptyMap,
     total |-> 0, unique |-> 0]

\* the result dictionary built from the matches
Result(v, text, matches, stats) ==
    [highlighted |-> Highlight(text, sorted_reverse(matches), Marker(v)),
     matches |-> matches,
     stats |-> stats,
     total |-> Len(matches),
     unique |-> Cardinality(DOMAIN stats)]

\* what analyze_text leaves after the token loop ended in state st
Finish(v, text, st) ==
    [raised |-> st.raised,
     value |-> IF st.raised THEN ZeroResult
               ELSE Result(v, text, st.matches, CountStats(st.matches, EmptyMap)),
     cache |-> st.cache, norms |-> st.norms, tokens |-> st.tokens,
     tokenizer |-> 1]

\* analyze_text on cache c: whether it raised, its result, the cache it left,
\* the normalize_word calls it made, the tokens it tested and the number of
\* tokenizer invocations
analyze_text(v, c, text) ==
    IF IsBlank(text)
    THEN [raised |-> FALSE, value |-> ZeroResult, cache |-> c,
          norms |-> << >>, tokens |-> << >>, tokenizer |-> 0]
    ELSE Finish(v, text,
                Collect(v, tokenize(v, text), 1,
                        [cache |-> c, matches |-> << >>, norms |-> << >>,
                         tokens |-> << >>, raised |-> FALSE]))

\* ------------------------------------------------- concurrent analyses

Threads == {1, 2}

ConcTexts == UNION {[1..n -> Alphabet] : n \in 0..MaxConcLen}

\* a thread that has not entered analyze_text
IdleThread ==
    [pc |-> "idle", text |-> << >>, tokens |-> << >>, k |-> 0, call |-> "A",
     matches |-> << >>, local |-> << >>, inserted |-> {}, raised |-> FALSE,
     result |-> ZeroResult]

\* no message handled yet
IdleHandler ==
    [body |-> << >>, pad |-> 0, sent |-> << >>, processing |-> "none",
     analyzed |-> FALSE, raised |-> FALSE, propagated |-> FALSE,
     last_text |-> << >>]

\* ------------------------------------------------------------------ state

Init ==
    /\ variant \in Variants
    /\ cache = EmptyMap
    /\ calls = 0
    /\ op = "none"
    /\ arg = << >>
    /\ outcome = "none"
    /\ ret = << >>
    /\ normLog = << >>
    /\ tokenLog = << >>
    /\ tokenizerCalls = 0
    /\ seen = EmptyMap
    /\ threads = [t \in Threads |-> IdleThread]
    /\ handler = IdleHandler

\* history of values returned by normalize_word, first return wins
Remember(s, log) ==
    LET returned == {i \in 1..Len(log) : ~log[i].raised}
        keys == {Lower(log[i].word) : i \in returned}
        first(k) == CHOOSE i \in returned :
                       /\ Lower(log[i].word) = k
                       /\ \A j \in returned : Lower(log[j].word) = k => i <= j
    IN [k \in (DOMAIN s) \cup keys |->
           IF k \in DOMAIN s THEN s[k] ELSE log[first(k)].value]

\* a direct call normalize_word(word)
NormalizeWord ==
    /\ calls < MaxCalls
    /\ \E word \in Texts :
         LET r == normalize_word(variant, cache, word) IN
         /\ op' = "normalize_word"
         /\ arg' = word
         /\ outcome' = IF r.raised THEN "raise" ELSE "return"
         /\ ret' = r.value
         /\ cache' = r.cache
         /\ normLog' = << r >>
         /\ seen' = Remember(seen, << r >>)
    /\ calls' = calls + 1
    /\ tokenLog' = << >>
    /\ tokenizerCalls' = 0
    /\ UNCHANGED <<variant, threads, handler>>

\* a direct call is_target_word(word)
IsTargetWord ==
    /\ calls < MaxCalls
    /\ \E word \in Texts :
         LET r == is_target_word(variant, cache, word) IN
         /\ op' = "is_target_word"
         /\ arg' = word
         /\ outcome' = IF r.raised THEN "raise" ELSE "return"
         /\ ret' = r.value
         /\ cache' = r.cache
         /\ normLog' = << r.norm >>
         /\ seen' = Remember(seen, << r.norm >>)
    /\ calls' = calls + 1
    /\ tokenLog' = << >>
    /\ tokenizerCalls' = 0
    /\ UNCHANGED <<variant, threads, handler>>

\* a call analyze_text(text)
AnalyzeText ==
    /\ calls < MaxCalls
    /\ \E text \in Texts :
         LET r == analyze_text(variant, cache, text) IN
         /\ op' = "analyze_text"
         /\ arg' = text
         /\ outcome' = IF r.raised THEN "raise" ELSE "return"
         /\ ret' = r.value
         /\ cache' = r.cache
         /\ normLog' = r.norms
         /\ tokenLog' = r.tokens
         /\ tokenizerCalls' = r.tokenizer
         /\ seen' = Remember(seen, r.norms)
    /\ calls' = calls + 1
    /\ UNCHANGED <<variant, threads, handler>>

Next == NormalizeWord \/ IsTargetWord \/ AnalyzeText

Spec == Init /\ [][Next]_vars

\* --------------------------------------- two analyses on the shared instance
\* Each thread runs analyze_text; the steps that touch the shared cache are
\* the lookup of normalize_word (`if word_lower in self.cache`, and the read
\* on a hit) and its insertion (`self.cache[word_lower] = normal_form`).
\* Between them a thread works on its locals.

OtherVars == <<variant, calls, op, arg, outcome, ret, normLog, tokenLog,
               tokenizerCalls, seen, handler>>

\* mutant: the key is stored in place of its lemma
cache_insert_key(c, key, value) == (key :> key) @@ c

\* self.cache[word_lower] = normal_form
cache_insert(c, key, value) == (key :> value) @@ c

\* word_lower of the normalize_word call the thread is in
ThKey(th) == Lower(th.tokens[th.k].text)

\* the token loop is over: highlighting, statistics, return
ThFinish(v, th) ==
    [th EXCEPT !.pc = "done",
               !.result = Result(v, th.text, th.matches,
                                 CountStats(th.matches, EmptyMap))]

\* next token, or the end of the loop
ThAdvance(v, th) ==
    IF th.k + 1 > Len(th.tokens) THEN ThFinish(v, th)
    ELSE [th EXCEPT !.pc = "lookup", !.k = @ + 1, !.call = "A"]

\* normalize_word returned value: call "A" is the one inside is_target_word,
\* call "B" the one that fills "normal" of the match
ThReturned(v, th, value) ==
    IF th.call = "A"
    THEN IF value \in target_words
         THEN [th EXCEPT !.pc = "lookup", !.call = "B"]
         ELSE ThAdvance(v, th)
    ELSE ThAdvance(v,
           [th EXCEPT !.matches = Append(@,
               [word |-> th.tokens[th.k].text, normal |-> value,
                start |-> th.tokens[th.k].start, end |-> th.tokens[th.k].stop])])

\* the lookup missed; r is what the override mapping and the engine give
ThMiss(v, th, r) ==
    IF r.raised THEN [th EXCEPT !.pc = "done", !.raised = TRUE]
    ELSE IF r.cache = EmptyMap THEN ThReturned(v, th, r.value)
    ELSE [th EXCEPT !.pc = "insert", !.local = r.value]

\* entry of analyze_text up to the first lookup
ThStart(v, text, tokens) ==
    IF IsBlank(text) THEN [IdleThread EXCEPT !.pc = "done", !.text = text]
    ELSE IF tokens = << >> THEN ThFinish(v, [IdleThread EXCEPT !.text = text])
    ELSE [IdleThread EXCEPT !.pc = "lookup", !.text = text,
                            !.tokens = tokens, !.k = 1]

ConcStart(t) ==
    /\ threads[t].pc = "idle"
    /\ \E text \in ConcTexts :
         threads' = [threads EXCEPT
                       ![t] = ThStart(variant, text, tokenize(variant, text))]
    /\ UNCHANGED <<cache, OtherVars>>

ConcLookup(t) ==
    /\ threads[t].pc = "lookup"
    /\ threads' = [threads EXCEPT ![t] =
          IF ThKey(threads[t]) \in DOMAIN cache
          THEN ThReturned(variant, threads[t], cache[ThKey(threads[t])])
          ELSE ThMiss(variant, threads[t],
                      normalize_word(variant, EmptyMap,
                                     threads[t].tokens[threads[t].k].text))]
    /\ UNCHANGED <<cache, OtherVars>>

ConcInsert(t) ==
    /\ threads[t].pc = "insert"
    /\ cache' = cache_insert(cache, ThKey(threads[t]), threads[t].local)
    /\ threads' = [threads EXCEPT ![t] =
          ThReturned(variant,
                     [threads[t] EXCEPT !.inserted = @ \cup {ThKey(threads[t])}],
                     threads[t].local)]
    /\ UNCHANGED OtherVars

ConcNext == \E t \in Threads : ConcStart(t) \/ ConcLookup(t) \/ ConcInsert(t)

SpecConc == Init /\ [][ConcNext]_vars

\* ------------------------------------------------------ handle_text_message
\* A message text is its first characters (body) followed by pad spaces, so
\* that lengths on both sides of MAX_TEXT_LENGTH are reached with short
\* bodies.  Trailing spaces add no token and do not change text.strip()
\* being empty, so the matches and the total of the analysis are those of
\* the body.  The handler's record keeps the kinds of the replies it sent, in
\* order, and what became of the "processing" message.  Calls of the
\* transport (reply_text, delete) are taken to succeed.

MAX_TEXT_LENGTH == 4000

Pads == {0, MAX_TEXT_LENGTH - 1}

Messages == [body : Texts, pad : Pads]

\* len(text)
TextLen(msg) == Len(msg.body) + msg.pad

\* mutant: the limit is taken one character too high
TooLong_off(msg) == TextLen(msg) > MAX_TEXT_LENGTH + 1

\* if len(text) > MAX_TEXT_LENGTH
TooLong(msg) == TextLen(msg) > MAX_TEXT_LENGTH

\* context.user_data['last_text'] = text   (src/bot.py only)
SaveLast(v, last, msg) == IF v = "bot" THEN <<msg>> ELSE last

\* the handler after the "processing" message was sent
Processing(v, last, msg) ==
    [IdleHandler EXCEPT !.body = msg.body, !.pad = msg.pad,
                        !.sent = <<"processing">>, !.processing = "sent",
                        !.last_text = SaveLast(v, last, msg)]

\* mutant: no except clause, the exception leaves the handler
Except_propagate(h) == [h EXCEPT !.propagated = TRUE]

\* except Exception: delete the "processing" message, reply with the failure
Except(h) ==
    [h EXCEPT !.processing = "deleted", !.sent = Append(@, "failure")]

\* total == 0: reply that nothing was found, delete, return
NoneFound(h) ==
    [h EXCEPT !.sent = Append(@, "none_found"), !.processing = "deleted"]

\* the highlighted text, the statistics (src/bot.py only), delete
Found(v, h) ==
    [h EXCEPT !.sent = @ \o (IF v = "bot" THEN <<"highlighted", "stats">>
                             ELSE <<"highlighted">>),
              !.processing = "deleted"]

\* the try block, r being the outcome of analyzer.analyze_text(text)
Try(v, h, r) ==
    IF r.raised THEN Except([h EXCEPT !.analyzed = TRUE, !.raised = TRUE])
    ELSE IF r.value.total = 0 THEN NoneFound([h EXCEPT !.analyzed = TRUE])
    ELSE Found(v, [h EXCEPT !.analyzed = TRUE])

handle_text_message(v, c, last, msg) ==
    IF TooLong(msg)
    THEN [h |-> [IdleHandler EXCEPT !.body = msg.body, !.pad = msg.pad,
                                    !.sent = <<"too_long">>,
                                    !.last_text = last],
          cache |-> c]
    ELSE [h |-> Try(v, Processing(v, last, msg), analyze_text(v, c, msg.body)),
          cache |-> analyze_text(v, c, msg.body).cache]

HandleTextMessage ==
    /\ calls < MaxCalls
    /\ \E msg \in Messages :
         /\ handler' = handle_text_message(variant, cache, handler.last_text, msg).h
         /\ cache' = handle_text_message(variant, cache, handler.last_text, msg).cache
    /\ calls' = calls + 1
    /\ UNCHANGED <<variant, op, arg, outcome, ret, normLog, tokenLog,
                   tokenizerCalls, seen, threads>>

HandlerNext == HandleTextMessage

SpecHandler == Init /\ [][HandlerNext]_vars

\* ----------------------------------------------------------------- claims

\* the text is empty or has only whitespace characters
WhitespaceOnly(text) == \A i \in 1..Len(text) : text[i] = " "

\* the last call was analyze_text and it returned a result
Analysed == op = "analyze_text" /\ outcome = "return"

\* text with marker inserted before and after each span of ms, built left to
\* right from the original text: text[pos:s_k] marker text[s_k:e_k] marker ...
RECURSIVE Wrapped(_, _, _, _, _)
Wrapped(text, ms, k, pos, marker) ==
    IF k > Len(ms) THEN Slice(text, pos, Len(text))
    ELSE Slice(text, pos, ms[k].start) \o marker
         \o Slice(text, ms[k].start, ms[k].end) \o marker
         \o Wrapped(text, ms, k + 1, ms[k].end, marker)

MarkersInserted ==
    /\ ret.highlighted = Wrapped(arg, ret.matches, 1, 0, Marker(variant))
    /\ Len(ret.highlighted)
         = Len(arg) + 2 * Len(ret.matches) * Len(Marker(variant))
    /\ (ret.matches = << >> => ret.highlighted = arg)

\* C1 as stated: for every text the highlighted string of a returned analysis
\* is the text with one marker inserted before and one after each match span
\* and nothing else changed; with no matches it equals the text.
C1_Original == Analysed => MarkersInserted

\* C1 amended: for every text with a non-whitespace character the highlighted
\* string is the text with one marker inserted before and after each match
\* span and nothing else changed (equal to the text when nothing matches); for
\* an empty or whitespace-only text the highlighted string is empty.
C1_Highlighted ==
    Analysed => IF WhitespaceOnly(arg) THEN ret.highlighted = << >> ELSE MarkersInserted

C1_Witness == Analysed /\ ~WhitespaceOnly(arg) /\ Len(ret.matches) >= 2

RECURSIVE SumOver(_, _)
SumOver(f, keys) ==
    IF keys = {} THEN 0
    ELSE LET k == CHOOSE k \in keys : TRUE IN f[k] + SumOver(f, keys \ {k})

\* C2: in every returned analysis, stats has exactly the lemmas of the matches
\* as keys, each mapped to the number of matches with that lemma; total is the
\* number of matches and the sum of the stats values; unique is the number of
\* stats keys and is at most total.
C2_Stats ==
    Analysed =>
        /\ DOMAIN ret.stats = {ret.matches[i].normal : i \in 1..Len(ret.matches)}
        /\ \A lemma \in DOMAIN ret.stats :
             ret.stats[lemma]
               = Cardinality({i \in 1..Len(ret.matches) : ret.matches[i].normal = lemma})
        /\ ret.total = Len(ret.matches)
        /\ ret.total = SumOver(ret.stats, DOMAIN ret.stats)
        /\ ret.unique = Cardinality(DOMAIN ret.stats)
        /\ ret.unique <= ret.total

\* two different surface forms counted under one lemma
C2_Witness ==
    /\ Analysed
    /\ \E i, j \in 1..Len(ret.matches) :
         /\ ret.matches[i].word # ret.matches[j].word
         /\ ret.matches[i].normal = ret.matches[j].normal
         /\ ret.stats[ret.matches[i].normal] = 2

\* the lemma of a word as the override mapping and the engine resolve it,
\* with no cache involved
Resolve(v, word) == normalize_word(v, EmptyMap, word)

RECURSIVE SelectTargets(_, _, _)
SelectTargets(v, tokens, k) ==
    IF k > Len(tokens) THEN << >>
    ELSE LET r == Resolve(v, tokens[k].text) IN
         (IF ~r.raised /\ r.value \in target_words
          THEN << [word |-> tokens[k].text, normal |-> r.value,
                   start |-> tokens[k].start, end |-> tokens[k].stop] >>
          ELSE << >>)
         \o SelectTargets(v, tokens, k + 1)

\* C3: for a non-blank text, a returned analysis has a match for a token
\* exactly when the lemma of the token's text is in the target word set; each
\* match's normal is in the target word set and is the lemma of its word.
C3_Membership ==
    (Analysed /\ ~WhitespaceOnly(arg)) =>
        /\ tokenLog = tokenize(variant, arg)
        /\ ret.matches = SelectTargets(variant, tokenLog, 1)
        /\ \A i \in 1..Len(ret.matches) :
             /\ ret.matches[i].normal \in target_words
             /\ ret.matches[i].normal = Resolve(variant, ret.matches[i].word).value

\* an inflected form matched next to a token that is no target
C3_Witness ==
    /\ Analysed /\ Len(tokenLog) >= 2
    /\ \E i \in 1..Len(ret.matches) : ret.matches[i].normal # Lower(ret.matches[i].word)
    /\ Len(ret.matches) < Len(tokenLog)

EngineFails(w) == MorphParse(w).raises \/ MorphParse(w).parsed = << >>

\* C4: normalize_word on a word that is no override key and for which the
\* engine raises or yields no candidate does not raise and returns the
\* lowercased word.
C4_Fallback ==
    (/\ op = "normalize_word"
     /\ Lower(arg) \notin DOMAIN words_lemma(variant)
     /\ EngineFails(Lower(arg)))
        => (outcome = "return" /\ ret = Lower(arg))

\* one more normalize_word call on a word whose lowercase form already
\* returned: same value, no engine call
Repeats(before, log, j) ==
    LET k == Lower(log[j].word)
        again(value) == ~log[j].raised /\ log[j].value = value /\ ~log[j].engine
    IN /\ k \in DOMAIN before => again(before[k])
       /\ \A i \in 1..(j - 1) :
            (Lower(log[i].word) = k /\ ~log[i].raised) => again(log[i].value)

\* C5: once normalize_word has returned for a word, every later call with the
\* same lowercased word on the instance returns the same value and makes no
\* engine call, whichever branch produced the first value.
C5_CacheTransparency ==
    [][\A j \in 1..Len(normLog') : Repeats(seen, normLog', j)]_vars

\* C6: after any earlier calls, normalize_word of a word whose lowercase form
\* is a key of the override mapping returns the mapped value, whatever the
\* engine would return for it.
C6_Override ==
    \A j \in 1..Len(normLog) :
        LET k == Lower(normLog[j].word) IN
        k \in DOMAIN words_lemma(variant)
            => (~normLog[j].raised /\ normLog[j].value = words_lemma(variant)[k])

\* a second call on an override key for which the engine has another answer
C6_Witness ==
    /\ calls = 2 /\ op = "normalize_word" /\ outcome = "return"
    /\ Lower(arg) \in DOMAIN words_lemma(variant)
    /\ cache # EmptyMap
    /\ (EngineFails(Lower(arg)) \/ MorphParse(Lower(arg)).parsed # << ret >>)

\* C7: analyze_text of an empty or whitespace-only text returns the zero
\* result, invokes neither the tokenizer nor the engine (normalize_word is not
\* called at all) and leaves the cache unchanged.
C7_BlankShortCircuit ==
    [][(op' = "analyze_text" /\ WhitespaceOnly(arg'))
         => /\ outcome' = "return"
            /\ ret' = [highlighted |-> << >>, matches |-> << >>,
                       stats |-> EmptyMap, total |-> 0, unique |-> 0]
            /\ tokenizerCalls' = 0
            /\ normLog' = << >>
            /\ tokenLog' = << >>
            /\ cache' = cache]_vars

C7_Witness ==
    /\ op = "analyze_text" /\ arg # << >> /\ WhitespaceOnly(arg)
    /\ cache # EmptyMap

\* the token loop of an analyzer that never caches
RECURSIVE NoCacheCollect(_, _, _, _)
NoCacheCollect(v, tokens, k, matches) ==
    IF k > Len(tokens) THEN [raised |-> FALSE, matches |-> matches]
    ELSE LET t == Resolve(v, tokens[k].text) IN
         IF t.raised THEN [raised |-> TRUE, matches |-> matches]
         ELSE IF t.value \notin target_words
         THEN NoCacheCollect(v, tokens, k + 1, matches)
         ELSE NoCacheCollect(v, tokens, k + 1,
                Append(matches, [word |-> tokens[k].text,
                                 normal |-> Resolve(v, tokens[k].text).value,
                                 start |-> tokens[k].start,
                                 end |-> tokens[k].stop]))

NoCacheFinish(v, text, st) ==
    [raised |-> st.raised,
     value |-> Result(v, text, st.matches, CountStats(st.matches, EmptyMap))]

NoCacheAnalyze(v, text) ==
    IF WhitespaceOnly(text) THEN [raised |-> FALSE, value |-> ZeroResult]
    ELSE NoCacheFinish(v, text, NoCacheCollect(v, tokenize(v, text), 1, << >>))

SameOutcome(raised, value) ==
    /\ outcome = IF raised THEN "raise" ELSE "return"
    /\ ~raised => ret = value

\* C8: every call returns (or raises) exactly as it does on an analyzer that
\* never caches and resolves each word through the override mapping and the
\* engine: the cache left by earlier calls changes no result.
C8_CacheIrrelevant ==
    /\ op = "normalize_word"
         => SameOutcome(Resolve(variant, arg).raised, Resolve(variant, arg).value)
    /\ op = "is_target_word"
         => SameOutcome(Resolve(variant, arg).raised,
                        Resolve(variant, arg).value \in target_words)
    /\ op = "analyze_text"
         => SameOutcome(NoCacheAnalyze(variant, arg).raised,
                        NoCacheAnalyze(variant, arg).value)

\* an analysis with matches served entirely from the cache of an earlier call
C8_Witness ==
    /\ calls = 2 /\ Analysed /\ Len(ret.matches) >= 1
    /\ \A j \in 1..Len(normLog) : ~normLog[j].engine

\* C9: every token analyze_text tests is a maximal run of letters of the text;
\* digits and punctuation are never tokens or parts of tokens.
C9_LetterTokens ==
    op = "analyze_text" =>
        \A i \in 1..Len(tokenLog) :
            LET t == tokenLog[i] IN
            /\ t.start < t.stop
            /\ \A p \in (t.start + 1)..t.stop : IsLetter(arg[p])
            /\ (t.start = 0 \/ ~IsLetter(arg[t.start]))
            /\ (t.stop = Len(arg) \/ ~IsLetter(arg[t.stop + 1]))

\* C10: the matches of a returned analysis are in strictly increasing order of
\* start, each with 0 <= start < end <= len(text) and word = text[start:end],
\* and each match ends no later than the next one starts.
C10_Ordered ==
    Analysed =>
        /\ \A i \in 1..Len(ret.matches) :
             LET m == ret.matches[i] IN
             /\ 0 <= m.start /\ m.start < m.end /\ m.end <= Len(arg)
             /\ m.word = Slice(arg, m.start, m.end)
        /\ \A i \in 1..(Len(ret.matches) - 1) :
             /\ ret.matches[i].start < ret.matches[i + 1].start
             /\ ret.matches[i].end <= ret.matches[i + 1].start

C10_Witness ==
    /\ Analysed /\ Len(ret.matches) = 2
    /\ ret.matches[1].end < ret.matches[2].start

\* C11: across any sequence of normalize_word, is_target_word and
\* analyze_text calls the only state of the instance that changes is the
\* cache, and the cache only gains entries: a key once cached is never removed
\* and its value never changes.  (The target word set and the override mapping
\* are fixed at construction; no method assigns them.)
C11_CacheOnlyGrows ==
    [][/\ variant' = variant
       /\ DOMAIN cache \subseteq DOMAIN cache'
       /\ \A k \in DOMAIN cache : cache'[k] = cache[k]]_vars

\* a second call that added entries to a cache the first call had filled
C11_Witness ==
    /\ calls = 2 /\ Cardinality(DOMAIN cache) >= 3
    /\ \E j \in 1..Len(normLog) : normLog[j].engine /\ ~normLog[j].raised

\* C12: when two analyses run concurrently on the shared instance, with the
\* cache lookups and insertions of normalize_word interleaved in any order,
\* each analysis returns (or raises) as it does when it runs alone, and every
\* cache entry equals the lemma the override mapping or the engine resolves
\* for its key.
C12_Concurrent ==
    /\ \A t \in Threads :
         threads[t].pc = "done" =>
            /\ threads[t].raised = analyze_text(variant, EmptyMap, threads[t].text).raised
            /\ ~threads[t].raised =>
                 threads[t].result = analyze_text(variant, EmptyMap, threads[t].text).value
    /\ \A k \in DOMAIN cache :
         ~Resolve(variant, k).raised /\ cache[k] = Resolve(variant, k).value

\* both threads missed on the same word and both inserted it; both matched
C12_Witness ==
    /\ \A t \in Threads : threads[t].pc = "done" /\ Len(threads[t].result.matches) >= 1
    /\ threads[1].inserted \cap threads[2].inserted # {}

CountOf(seq, x) == Cardinality({i \in 1..Len(seq) : seq[i] = x})

\* C13: in handle_text_message, if analyze_text raises an exception the
\* handler does not propagate it: the "processing" message is deleted,
\* exactly one generic failure reply is sent, and no highlighted text is sent.
C13_AnalysisFailure ==
    handler.raised =>
        /\ ~handler.propagated
        /\ handler.processing = "deleted"
        /\ CountOf(handler.sent, "failure") = 1
        /\ CountOf(handler.sent, "highlighted") = 0

\* the analyzer was called on a text within the limit and raised
C13_Witness ==
    /\ handler.analyzed /\ handler.raised
    /\ handler.sent = <<"processing", "failure">>

\* C14: the handler never calls analyze_text with a text longer than
\* MAX_TEXT_LENGTH (4000) characters: for such a message it replies with the
\* too-long notice and returns before the "processing" message is sent and
\* before the analyzer is invoked, so the lemma cache is unchanged.
C14_LengthGuard ==
    [][Len(handler'.body) + handler'.pad > 4000 =>
          /\ handler'.sent = <<"too_long">>
          /\ handler'.processing = "none"
          /\ ~handler'.analyzed
          /\ cache' = cache]_vars

\* a text of 4001 characters arrived after an earlier message filled the cache
C14_Witness ==
    /\ calls = 2
    /\ Len(handler.body) + handler.pad = 4001
    /\ handler.sent = <<"too_long">>
    /\ cache # EmptyMap

=============================================================================
